---- MODULE Spec2Model ----
(***************************************************************************)
(* bfa: a Brainfuck-like program over a ring of 4-bit cells is turned into *)
(* a DFA over the inputs 0..15 (Table::build), the DFA is minimized        *)
(* (Table::minimize) and written as DOT.  The model follows src/src/lib.rs *)
(* and the driver src/src/main.rs.                                         *)
(***************************************************************************)
EXTENDS Integers, Sequences, FiniteSets, TLC

VARIABLES
    instructions,       \* Program.instructions
    cell_count,         \* Program.cell_count
    pc,                 \* position of the driver / build / engine / minimize
    state,              \* run_with_next_input: the InnerState being run
    accepting,          \* run_with_next_input: local `accepting`
    seen_states,        \* the cycle-detection map (a set: values are unit)
    ret,                \* the State returned by the last engine call
    state_ids,          \* build: State -> row index
    states,             \* Table.states
    exploration_stack,  \* build: exploration_stack
    current,            \* build: the State popped from the stack
    input,              \* the `for input in 0..16` counter (build, minimize)
    old_states,         \* Table.states as it was when minimize was entered
    partition,          \* minimize: class id of every row
    partition_reps,     \* minimize: representative row of every class
    queue,              \* minimize: pending splitters
    queue_current,      \* minimize: the class popped from the queue
    preimage,           \* minimize: rows going into queue_current on input
    part,               \* minimize: the `for part in 0..len` counter
    part_end,           \* minimize: the end of that range
    round,              \* how many times minimize has been entered
    output              \* the String that Table::dot returns

vars == <<instructions, cell_count, pc, state, accepting, seen_states, ret,
          state_ids, states, exploration_stack, current, input, old_states,
          partition, partition_reps, queue, queue_current, preimage, part,
          part_end, round, output>>

engineVars == <<state, accepting, seen_states, ret>>
buildVars == <<state_ids, states, exploration_stack, current>>
minVars == <<old_states, partition, partition_reps, queue, queue_current,
             preimage, part, part_end, round>>

\* ------------------------------------------------------------------ bounds
\* programs of every length up to MaxProgLen are explored exhaustively
MaxProgLen == 1
\* ... each with every cell count 1..MaxCells
MaxCells == 2
\* minimize is applied to the table at most MaxRounds times in a row
MaxRounds == 2
\* the tables handed to dot directly have at most MaxDotRows rows ...
MaxDotRows == 2
\* ... and row 0 changes its target at most MaxBreaks times along 0..15
MaxBreaks == 2
\* the tapes handed to the engine directly have at most MaxTape cells
MaxTape == 3

\* ------------------------------------------------------- program constants
NumInputs == 16
ByteMod == 256

\* ------------------------------------------------------------ Instruction
MoveLeft == "<"
MoveRight == ">"
Increment == "+"
Decrement == "-"
StartLoop == "["
EndLoop == "]"
Read == ","
Accept == "."

Instruction ==
    {MoveLeft, MoveRight, Increment, Decrement, StartLoop, EndLoop, Read, Accept}

\* Option<T>: None is the empty sequence, Some(x) the one-element sequence
None == <<>>
Some(x) == <<x>>

\* ------------------------------------------------------------------ U4Vec
RECURSIVE BitAnd(_, _, _)
BitAnd(a, b, bits) ==
    IF bits = 0 THEN 0
    ELSE (IF a % 2 = 1 /\ b % 2 = 1 THEN 1 ELSE 0)
         + 2 * BitAnd(a \div 2, b \div 2, bits - 1)

RECURSIVE BitOr(_, _, _)
BitOr(a, b, bits) ==
    IF bits = 0 THEN 0
    ELSE (IF a % 2 = 1 \/ b % 2 = 1 THEN 1 ELSE 0)
         + 2 * BitOr(a \div 2, b \div 2, bits - 1)

ShiftRight(a, n) == a \div (2 ^ n)
ShiftLeft8(a, n) == (a * (2 ^ n)) % ByteMod

\* (self.0[index / 2] >> (4 * (index & 1))) & 0x0F
U4Vec_get(cells, index) ==
    BitAnd(ShiftRight(cells[(index \div 2) + 1], 4 * (index % 2)), 15, 8)

\* variant: the nibble is not cleared before the new value is or-ed in
U4Vec_set_noClear(cells, index, value) ==
    LET put == ShiftLeft8(BitAnd(value, 15, 8), 4 * (index % 2))
    IN  [cells EXCEPT ![(index \div 2) + 1] = BitOr(@, put, 8)]

\* self.0[index / 2] &= 0xF0 >> (4 * (index & 1));
\* self.0[index / 2] |= (value & 0x0F) << (4 * (index & 1))
U4Vec_set(cells, index, value) ==
    LET kept == BitAnd(cells[(index \div 2) + 1],
                       ShiftRight(240, 4 * (index % 2)), 8)
        put == ShiftLeft8(BitAnd(value, 15, 8), 4 * (index % 2))
    IN  [cells EXCEPT ![(index \div 2) + 1] = BitOr(kept, put, 8)]

\* smallvec![0; cell_count.div_ceil(2)]
ZeroCells(n) == [k \in 1..((n + 1) \div 2) |-> 0]

\* ------------------------------------------------------------- InnerState
InnerState(cells, head_position, instruction_position) ==
    [cells |-> cells, head_position |-> head_position,
     instruction_position |-> instruction_position]

\* State { inner, accepting }
State(inner, acc) == [inner |-> inner, accepting |-> acc]

\* ----------------------------------------------------- run_with_next_input
\* The engine is a record e = [state, accepting, seen_states, ret]; ret is
\* None while the call runs and Some(State) once it has returned.
Engine(st, acc, seen, r) ==
    [state |-> st, accepting |-> acc, seen_states |-> seen, ret |-> r]

\* variant: the flag of a call starts set
EngineEntry_flagSet(st, inp, seen) ==
    Engine([st EXCEPT !.cells = U4Vec_set(st.cells, st.head_position, inp)],
           TRUE, seen, None)

\* state.cells.set(state.head_position, input); let mut accepting = false;
EngineEntry(st, inp, seen) ==
    Engine([st EXCEPT !.cells = U4Vec_set(st.cells, st.head_position, inp)],
           FALSE, seen, None)

\* self.instructions.get(state.instruction_position)
Fetch(st) ==
    IF st.instruction_position < Len(instructions)
    THEN Some(instructions[st.instruction_position + 1])
    ELSE None

\* variant: the closing lines hand back the configuration they stopped in
ReturnNone_keepsState(e) ==
    [e EXCEPT !.ret = Some(State(Some(e.state), e.accepting))]

\* the closing lines: State { inner: None, accepting }
ReturnNone(e) == [e EXCEPT !.ret = Some(State(None, e.accepting))]

\* the common tail of the loop body: state.instruction_position += 1
Advance(e) ==
    [e EXCEPT !.state.instruction_position = e.state.instruction_position + 1]

ExecMoveLeft(e) ==
    Advance([e EXCEPT !.state.head_position =
                IF e.state.head_position = 0
                THEN cell_count - 1
                ELSE e.state.head_position - 1])

ExecMoveRight(e) ==
    Advance([e EXCEPT !.state.head_position =
                IF e.state.head_position = cell_count - 1
                THEN 0
                ELSE e.state.head_position + 1])

\* get(..) + 1 is a u8 sum of at most 16; set() masks it to four bits
ExecIncrement(e) ==
    Advance([e EXCEPT !.state.cells =
                U4Vec_set(e.state.cells, e.state.head_position,
                          U4Vec_get(e.state.cells, e.state.head_position) + 1)])

\* wrapping_sub(1) on u8
ExecDecrement(e) ==
    Advance([e EXCEPT !.state.cells =
                U4Vec_set(e.state.cells, e.state.head_position,
                          (U4Vec_get(e.state.cells, e.state.head_position)
                           + ByteMod - 1) % ByteMod)])

\* the backward scan of EndLoop, from position ip with the nesting so far;
\* outer = TRUE is `break 'outer` (position 0 reached without a match)
RECURSIVE ScanBack(_, _)
ScanBack(ip, nesting) ==
    LET ins == instructions[ip + 1]
        n2 == IF ins = StartLoop THEN nesting - 1
              ELSE IF ins = EndLoop THEN nesting + 1
              ELSE nesting
    IN  IF ins = StartLoop /\ n2 = 0 THEN [ip |-> ip, outer |-> FALSE]
        ELSE IF ip = 0 THEN [ip |-> ip, outer |-> TRUE]
        ELSE ScanBack(ip - 1, n2)

\* variant: a rewind that reaches position 0 unmatched goes on from there
ExecEndLoop_noBreakOuter(e) ==
    [e EXCEPT !.state.instruction_position =
        ScanBack(e.state.instruction_position, 0).ip]

\* unconditional: jump to the matching StartLoop and `continue`
ExecEndLoop(e) ==
    LET scan == ScanBack(e.state.instruction_position, 0)
        moved == [e EXCEPT !.state.instruction_position = scan.ip]
    IN  IF scan.outer THEN ReturnNone(moved) ELSE moved

\* the forward scan of StartLoop on a zero cell; outer = TRUE is
\* `break 'outer` (the end of the instructions reached without a match)
RECURSIVE ScanForward(_, _)
ScanForward(ip, nesting) ==
    LET ins == instructions[ip + 1]
        n2 == IF ins = StartLoop THEN nesting + 1
              ELSE IF ins = EndLoop THEN nesting - 1
              ELSE nesting
    IN  IF ins = EndLoop /\ n2 = 0 THEN [ip |-> ip, outer |-> FALSE]
        ELSE IF ip + 1 = Len(instructions) THEN [ip |-> ip + 1, outer |-> TRUE]
        ELSE ScanForward(ip + 1, n2)

\* variant: a non-skipping StartLoop records the configuration but never
\* looks whether it was recorded before
ExecStartLoop_noCycleCheck(e) ==
    IF U4Vec_get(e.state.cells, e.state.head_position) = 0
    THEN LET scan == ScanForward(e.state.instruction_position, 0)
             moved == [e EXCEPT !.state.instruction_position = scan.ip]
         IN  IF scan.outer THEN ReturnNone(moved) ELSE Advance(moved)
    ELSE Advance([e EXCEPT !.seen_states = e.seen_states \cup {e.state}])

ExecStartLoop(e) ==
    IF U4Vec_get(e.state.cells, e.state.head_position) = 0
    THEN LET scan == ScanForward(e.state.instruction_position, 0)
             moved == [e EXCEPT !.state.instruction_position = scan.ip]
         IN  IF scan.outer THEN ReturnNone(moved) ELSE Advance(moved)
    ELSE IF e.state \in e.seen_states
         THEN ReturnNone(e)
         ELSE Advance([e EXCEPT !.seen_states = e.seen_states \cup {e.state}])

\* variant: Read returns without stepping past itself
ExecRead_noAdvance(e) ==
    [e EXCEPT !.ret = Some(State(Some(e.state), e.accepting))]

ExecRead(e) ==
    LET moved == Advance(e)
    IN  [moved EXCEPT !.ret = Some(State(Some(moved.state), e.accepting))]

\* variant: Accept is skipped like a comment
ExecAccept_noFlag(e) == Advance(e)

ExecAccept(e) == Advance([e EXCEPT !.accepting = TRUE])

\* one turn of the 'outer loop
EngineStep(e) ==
    LET f == Fetch(e.state)
    IN  IF f = None THEN ReturnNone(e)
        ELSE CASE f[1] = MoveLeft -> ExecMoveLeft(e)
               [] f[1] = MoveRight -> ExecMoveRight(e)
               [] f[1] = Increment -> ExecIncrement(e)
               [] f[1] = Decrement -> ExecDecrement(e)
               [] f[1] = EndLoop -> ExecEndLoop(e)
               [] f[1] = StartLoop -> ExecStartLoop(e)
               [] f[1] = Read -> ExecRead(e)
               [] f[1] = Accept -> ExecAccept(e)

\* the whole call, as a function of its arguments
RECURSIVE RunEngine(_)
RunEngine(e) == IF e.ret # None THEN e ELSE RunEngine(EngineStep(e))

run_with_next_input(st, inp, seen) == RunEngine(EngineEntry(st, inp, seen))

\* ------------------------------------------------------------ Program::new
\* from_char: the eight instruction characters; anything else is dropped
Instruction_from_char(c) == IF c \in Instruction THEN Some(c) ELSE None

RECURSIVE Program_new(_)
Program_new(program_text) ==
    IF program_text = <<>> THEN <<>>
    ELSE Instruction_from_char(Head(program_text)) \o Program_new(Tail(program_text))

\* the program texts of the documented scenarios S1, S2 and S3
TextS1 == <<",", "[", ".", ",", "]">>
TextS2 == <<"+", "[", ",", ".", "]">>
TextS3 == <<",", "[", "-", "[", "-", "]", "]", "]">>

\* the benchmark programs that are small enough to explore, the scenarios
\* of the documentation and a few programs with loops and stray brackets
PROGRAMS ==
    { [text |-> TextS1, cells |-> 1],
      [text |-> TextS2, cells |-> 1],
      [text |-> TextS3, cells |-> 1],
      [text |-> <<"+", "[", ">", ",", ",", ".", "<", "]">>, cells |-> 2],
      [text |-> <<">", "+", "[", ">", ".", ",", "[", ">", "]", "<", "<", "]">>,
       cells |-> 3],
      [text |-> <<"+", "[", ".", "]">>, cells |-> 1],
      [text |-> <<"+", "[", "-", "]", ".">>, cells |-> 2],
      [text |-> <<".", "[", "+">>, cells |-> 1],
      [text |-> <<",", " ", "x", ".">>, cells |-> 1],
      [text |-> <<",", "]">>, cells |-> 1],
      [text |-> <<",", "[">>, cells |-> 1],
      [text |-> <<"+", "[", "]">>, cells |-> 1],
      [text |-> <<",", "[", ",", "]">>, cells |-> 1],
      [text |-> <<",", "-", "[", ",", "[", ".", "]", ",", "]", "[">>,
       cells |-> 1],
      [text |-> <<",", "[", "]", ",", "[", ",", ",", ".", ">", "]", ".">>,
       cells |-> 2] }

ShortPrograms ==
    UNION { [1..n -> Instruction] : n \in 0..MaxProgLen }

\* ------------------------------------------------------------------- Init
Init ==
    /\ \/ \E p \in PROGRAMS :
            /\ instructions = Program_new(p.text)
            /\ cell_count = p.cells
       \/ /\ instructions \in ShortPrograms
          /\ cell_count \in 1..MaxCells
    /\ pc = "start"
    /\ state = InnerState(<<>>, 0, 0)
    /\ accepting = FALSE
    /\ seen_states = {}
    /\ ret = None
    /\ state_ids = <<>>
    /\ states = <<>>
    /\ exploration_stack = <<>>
    /\ current = State(None, FALSE)
    /\ input = 0
    /\ old_states = <<>>
    /\ partition = <<>>
    /\ partition_reps = <<>>
    /\ queue = <<>>
    /\ queue_current = 0
    /\ preimage = {}
    /\ part = 0
    /\ part_end = 0
    /\ round = 0
    /\ output = ""

\* ----------------------------------------------- engine steps (one per turn)
Eng == Engine(state, accepting, seen_states, ret)

Running == pc \in {"seed_engine", "explore_engine"}

\* the engine's variables take the value of e; a call that has returned
\* hands control back to its call site in build
SetEngine(e) ==
    /\ state' = e.state
    /\ accepting' = e.accepting
    /\ seen_states' = e.seen_states
    /\ ret' = e.ret
    /\ pc' = IF e.ret = None THEN pc
             ELSE IF pc = "seed_engine" THEN "seed_returned"
             ELSE "explore_returned"
    /\ UNCHANGED <<output, instructions, cell_count, input>>
    /\ UNCHANGED buildVars
    /\ UNCHANGED minVars

StepOf(ins) == Running /\ Fetch(state) = Some(ins)

StepMoveLeft == StepOf(MoveLeft) /\ SetEngine(ExecMoveLeft(Eng))
StepMoveRight == StepOf(MoveRight) /\ SetEngine(ExecMoveRight(Eng))
StepIncrement == StepOf(Increment) /\ SetEngine(ExecIncrement(Eng))
StepDecrement == StepOf(Decrement) /\ SetEngine(ExecDecrement(Eng))
StepEndLoop == StepOf(EndLoop) /\ SetEngine(ExecEndLoop(Eng))
StepStartLoop == StepOf(StartLoop) /\ SetEngine(ExecStartLoop(Eng))
StepRead == StepOf(Read) /\ SetEngine(ExecRead(Eng))
StepAccept == StepOf(Accept) /\ SetEngine(ExecAccept(Eng))
\* the `while let` finds no instruction: the call returns inner = None
StepHalt == Running /\ Fetch(state) = None /\ SetEngine(ReturnNone(Eng))

EngineNext ==
    \/ StepMoveLeft \/ StepMoveRight \/ StepIncrement \/ StepDecrement
    \/ StepEndLoop \/ StepStartLoop \/ StepRead \/ StepAccept \/ StepHalt

\* ------------------------------------------------------------ Table::build
\* [id; 16]
Repeat16(id) == [s \in 1..NumInputs |-> id]

Row(acc, next) == [accepting |-> acc, next |-> next]

\* build up to the seeding call: empty maps, the zero configuration, input 0
BuildStart ==
    /\ pc = "start"
    /\ state_ids' = <<>>
    /\ states' = <<>>
    /\ exploration_stack' = <<>>
    /\ LET e == EngineEntry(InnerState(ZeroCells(cell_count), 0, 0), 0, {})
       IN  /\ state' = e.state
           /\ accepting' = e.accepting
           /\ seen_states' = e.seen_states
           /\ ret' = e.ret
    /\ pc' = "seed_engine"
    /\ UNCHANGED <<output, instructions, cell_count, current, input>>
    /\ UNCHANGED minVars

\* variant: the set is not cleared after the seeding call
BuildSeed_noClear ==
    /\ pc = "seed_returned"
    /\ seen_states' = seen_states
    /\ exploration_stack' = Append(exploration_stack, ret[1])
    /\ states' = Append(states, Row(ret[1].accepting, Repeat16(0)))
    /\ state_ids' = (ret[1] :> 0)
    /\ pc' = "build_loop"
    /\ UNCHANGED <<output, instructions, cell_count, state, accepting, ret, current, input>>
    /\ UNCHANGED minVars

\* seen_states.clear(); push start; row 0; state_ids.insert(start, 0)
BuildSeed ==
    /\ pc = "seed_returned"
    /\ seen_states' = {}
    /\ exploration_stack' = Append(exploration_stack, ret[1])
    /\ states' = Append(states, Row(ret[1].accepting, Repeat16(0)))
    /\ state_ids' = (ret[1] :> 0)
    /\ pc' = "build_loop"
    /\ UNCHANGED <<output, instructions, cell_count, state, accepting, ret, current, input>>
    /\ UNCHANGED minVars

Pop(stack) == SubSeq(stack, 1, Len(stack) - 1)
Top(stack) == stack[Len(stack)]

\* variant: the row of a sink is left as it was pushed
SinkRow_unfixed(cur, current_id) == Row(cur.accepting, Repeat16(0))

\* (current.accepting, [current_id; 16])
SinkRow(cur, current_id) == Row(cur.accepting, Repeat16(current_id))

\* pop a State with inner = None: its row becomes a self-looping sink
BuildSink ==
    /\ pc = "build_loop"
    /\ exploration_stack # <<>>
    /\ Top(exploration_stack).inner = None
    /\ LET cur == Top(exploration_stack)
           current_id == state_ids[cur]
       IN  /\ current' = cur
           /\ states' = [states EXCEPT ![current_id + 1] =
                            SinkRow(cur, current_id)]
    /\ exploration_stack' = Pop(exploration_stack)
    /\ UNCHANGED <<output, instructions, cell_count, pc, state_ids, input>>
    /\ UNCHANGED engineVars
    /\ UNCHANGED minVars

\* pop a State with a configuration: start its `for input in 0..16`
BuildPop ==
    /\ pc = "build_loop"
    /\ exploration_stack # <<>>
    /\ Top(exploration_stack).inner # None
    /\ current' = Top(exploration_stack)
    /\ exploration_stack' = Pop(exploration_stack)
    /\ input' = 0
    /\ pc' = "explore"
    /\ UNCHANGED <<output, instructions, cell_count, state_ids, states>>
    /\ UNCHANGED engineVars
    /\ UNCHANGED minVars

\* the call of the engine on a clone of current.inner with `input`
ExploreCall ==
    /\ pc = "explore"
    /\ LET e == EngineEntry(current.inner[1], input, seen_states)
       IN  /\ state' = e.state
           /\ accepting' = e.accepting
           /\ seen_states' = e.seen_states
           /\ ret' = e.ret
    /\ pc' = "explore_engine"
    /\ UNCHANGED <<output, instructions, cell_count, input>>
    /\ UNCHANGED buildVars
    /\ UNCHANGED minVars

\* variant: the length after the push, not the index of the pushed row
NewRowId_length(pushed) == Len(pushed)

\* the id of a State seen for the first time, taken after its row was
\* pushed: table.states.len() - 1
NewRowId(pushed) == Len(pushed) - 1

\* variant: the set keeps the configurations of the call that returned
ExploreRecord_noClear ==
    /\ pc = "explore_returned"
    /\ seen_states' = seen_states
    /\ LET next == ret[1]
           current_id == state_ids[current]
           fresh == next \notin DOMAIN state_ids
           pushed == IF fresh
                     THEN Append(states, Row(next.accepting, Repeat16(0)))
                     ELSE states
           next_id == IF fresh THEN NewRowId(pushed) ELSE state_ids[next]
       IN  /\ state_ids' = IF fresh THEN state_ids @@ (next :> next_id)
                           ELSE state_ids
           /\ exploration_stack' = IF fresh THEN Append(exploration_stack, next)
                                   ELSE exploration_stack
           /\ states' = [pushed EXCEPT ![current_id + 1].next[input + 1] = next_id]
    /\ input' = input + 1
    /\ pc' = IF input + 1 = NumInputs THEN "build_loop" ELSE "explore"
    /\ UNCHANGED <<output, instructions, cell_count, state, accepting, ret, current>>
    /\ UNCHANGED minVars

\* after the call: clear the set, look the State up or give it a new row,
\* write its index into current's row, go on with the next input
ExploreRecord ==
    /\ pc = "explore_returned"
    /\ seen_states' = {}
    /\ LET next == ret[1]
           current_id == state_ids[current]
           fresh == next \notin DOMAIN state_ids
           pushed == IF fresh
                     THEN Append(states, Row(next.accepting, Repeat16(0)))
                     ELSE states
           next_id == IF fresh THEN NewRowId(pushed) ELSE state_ids[next]
       IN  /\ state_ids' = IF fresh THEN state_ids @@ (next :> next_id)
                           ELSE state_ids
           /\ exploration_stack' = IF fresh THEN Append(exploration_stack, next)
                                   ELSE exploration_stack
           /\ states' = [pushed EXCEPT ![current_id + 1].next[input + 1] = next_id]
    /\ input' = input + 1
    /\ pc' = IF input + 1 = NumInputs THEN "build_loop" ELSE "explore"
    /\ UNCHANGED <<output, instructions, cell_count, state, accepting, ret, current>>
    /\ UNCHANGED minVars

\* the stack is empty: build returns the table
BuildReturn ==
    /\ pc = "build_loop"
    /\ exploration_stack = <<>>
    /\ pc' = "built"
    /\ UNCHANGED <<output, instructions, cell_count, input>>
    /\ UNCHANGED engineVars
    /\ UNCHANGED buildVars
    /\ UNCHANGED minVars

BuildNext ==
    \/ BuildStart \/ BuildSeed \/ BuildSink \/ BuildPop
    \/ ExploreCall \/ ExploreRecord \/ BuildReturn
    \/ EngineNext

BuildSpec == Init /\ [][BuildNext]_vars

\* build is one sequential call: it keeps taking steps until it returns
BuildFairSpec == Init /\ [][BuildNext]_vars /\ WF_vars(BuildNext)

\* --------------------------------------------------------- Table::minimize
Min(S) == CHOOSE x \in S : \A y \in S : x <= y

Rows(t) == 0..(Len(t) - 1)

\* queue.contains(&id)
Contains(q, id) == \E k \in 1..Len(q) : q[k] = id

\* the rows whose transition on `inp` lands in class `cls`
Preimage(t, p, inp, cls) ==
    { i \in Rows(t) : p[t[i + 1].next[inp + 1] + 1] = cls }

\* the members of class `prt`, divided by membership in `pre`
Intersection(p, prt, pre) == { i \in 0..(Len(p) - 1) : p[i + 1] = prt /\ i \in pre }
Remainder(p, prt, pre) == { i \in 0..(Len(p) - 1) : p[i + 1] = prt /\ i \notin pre }

\* variant: class 1 is the accepting rows, whatever row 0 is
InitialPartition_byFlag(t) ==
    [i \in 1..Len(t) |-> IF t[i].accepting THEN 1 ELSE 0]

\* the initial partition: class 0 has the accepting flag of row 0, class 1
\* (when it exists) the other flag; both go on the queue
InitialPartition(t) ==
    [i \in 1..Len(t) |-> IF t[i].accepting # t[1].accepting THEN 1 ELSE 0]

InitialReps(t) ==
    LET different == { i \in Rows(t) : t[i + 1].accepting # t[1].accepting }
    IN  IF different = {} THEN <<0>> ELSE <<0, Min(different)>>

\* the head of minimize, up to the first test of the queue
EnterMinimize ==
    /\ round' = round + 1
    /\ old_states' = states
    /\ partition' = InitialPartition(states)
    /\ partition_reps' = InitialReps(states)
    /\ queue' = IF Len(InitialReps(states)) = 2 THEN <<0, 1>> ELSE <<0>>
    /\ pc' = "min_loop"
    /\ UNCHANGED <<output, instructions, cell_count, input, queue_current, preimage,
                   part, part_end>>
    /\ UNCHANGED engineVars
    /\ UNCHANGED buildVars

\* the driver's call: table.minimize() on the table build returned
MinimizeInit == pc = "built" /\ EnterMinimize

\* a caller applying minimize to an already minimized table
MinimizeAgain == pc = "minimized" /\ round < MaxRounds /\ EnterMinimize

\* while let Some(current) = queue.pop()
QueuePop ==
    /\ pc = "min_loop"
    /\ queue # <<>>
    /\ queue_current' = Top(queue)
    /\ queue' = Pop(queue)
    /\ input' = 0
    /\ pc' = "min_input"
    /\ UNCHANGED <<output, instructions, cell_count, old_states, partition,
                   partition_reps, preimage, part, part_end, round>>
    /\ UNCHANGED engineVars
    /\ UNCHANGED buildVars

\* one input: the preimage, and the range of the classes that exist now
InputStart ==
    /\ pc = "min_input"
    /\ preimage' = Preimage(states, partition, input, queue_current)
    /\ part' = 0
    /\ part_end' = Len(partition_reps)
    /\ pc' = "min_part"
    /\ UNCHANGED <<output, instructions, cell_count, input, old_states, partition,
                   partition_reps, queue, queue_current, round>>
    /\ UNCHANGED engineVars
    /\ UNCHANGED buildVars

\* a class that the preimage does not divide
PartSkip ==
    /\ pc = "min_part"
    /\ part < part_end
    /\ \/ Intersection(partition, part, preimage) = {}
       \/ Remainder(partition, part, preimage) = {}
    /\ part' = part + 1
    /\ UNCHANGED <<output, instructions, cell_count, pc, input, old_states, partition,
                   partition_reps, queue, queue_current, preimage, part_end,
                   round>>
    /\ UNCHANGED engineVars
    /\ UNCHANGED buildVars

\* variant: the rows of the higher half keep the id they had
SplitPartition_noMove(p, higher, new_id) == p

\* what one split does to partition, partition_reps and queue
SplitPartition(p, higher, new_id) ==
    [i \in 1..Len(p) |-> IF (i - 1) \in higher THEN new_id ELSE p[i]]

\* variant: the new class is given the first member of the lower half
SplitReps_pushLower(reps, prt, lower, higher) ==
    [Append(reps, Min(lower)) EXCEPT ![prt + 1] = Min(lower)]

SplitReps(reps, prt, lower, higher) ==
    [Append(reps, Min(higher)) EXCEPT ![prt + 1] = Min(lower)]

SplitQueue(q, inter_id, remain_id, intersection, remainder) ==
    IF Contains(q, inter_id) THEN Append(q, remain_id)
    ELSE IF Cardinality(intersection) <= Cardinality(remainder)
         THEN Append(q, inter_id)
         ELSE Append(q, remain_id)

\* a class that the preimage divides: the half with the lower first member
\* keeps the id, the other half gets the next free id
PartSplit ==
    /\ pc = "min_part"
    /\ part < part_end
    /\ LET intersection == Intersection(partition, part, preimage)
           remainder == Remainder(partition, part, preimage)
           new_id == Len(partition_reps)
           inter_low == Min(intersection) < Min(remainder)
           lower == IF inter_low THEN intersection ELSE remainder
           higher == IF inter_low THEN remainder ELSE intersection
           inter_id == IF inter_low THEN part ELSE new_id
           remain_id == IF inter_low THEN new_id ELSE part
       IN  /\ intersection # {}
           /\ remainder # {}
           /\ partition' = SplitPartition(partition, higher, new_id)
           /\ partition_reps' = SplitReps(partition_reps, part, lower, higher)
           /\ queue' = SplitQueue(queue, inter_id, remain_id, intersection, remainder)
    /\ part' = part + 1
    /\ UNCHANGED <<output, instructions, cell_count, pc, input, old_states,
                   queue_current, preimage, part_end, round>>
    /\ UNCHANGED engineVars
    /\ UNCHANGED buildVars

\* the range of classes is exhausted: next input, or back to the queue
InputDone ==
    /\ pc = "min_part"
    /\ part = part_end
    /\ input' = input + 1
    /\ pc' = IF input + 1 = NumInputs THEN "min_loop" ELSE "min_input"
    /\ UNCHANGED <<output, instructions, cell_count, old_states, partition,
                   partition_reps, queue, queue_current, preimage, part,
                   part_end, round>>
    /\ UNCHANGED engineVars
    /\ UNCHANGED buildVars

\* the rewrite: each representative's edges are remapped in place through
\* partition and the row is pushed onto new_states, in partition_reps order
\* variant: the edges keep the row indices of the table before minimize
RemapEdges_identity(p, next) == next

\* for edge in &mut self.states[old_id].1 { *edge = partition[*edge] }
RemapEdges(p, next) == [s \in 1..NumInputs |-> p[next[s] + 1]]

RECURSIVE RewriteRows(_, _, _, _, _)
RewriteRows(k, reps, p, t, new_states) ==
    IF k > Len(reps) THEN new_states
    ELSE LET old_id == reps[k]
             row == [t[old_id + 1] EXCEPT !.next = RemapEdges(p, @)]
         IN  RewriteRows(k + 1, reps, p, [t EXCEPT ![old_id + 1] = row],
                         Append(new_states, row))

MinimizeReturn ==
    /\ pc = "min_loop"
    /\ queue = <<>>
    /\ states' = RewriteRows(1, partition_reps, partition, states, <<>>)
    /\ pc' = "minimized"
    /\ UNCHANGED <<output, instructions, cell_count, input, state_ids,
                   exploration_stack, current>>
    /\ UNCHANGED engineVars
    /\ UNCHANGED minVars

MinimizeNext ==
    \/ MinimizeInit \/ QueuePop \/ InputStart \/ PartSkip \/ PartSplit
    \/ InputDone \/ MinimizeReturn

\* -------------------------------------------------------------- Table::dot
\* {n:X} for a number below 16
HexDigits ==
    <<"0", "1", "2", "3", "4", "5", "6", "7",
      "8", "9", "A", "B", "C", "D", "E", "F">>

UpperHex(n) == HexDigits[n + 1]

\* for n in start..input { write!("{n:X}") }
RECURSIVE HexRange(_, _)
HexRange(start, inp) ==
    IF start >= inp THEN "" ELSE UpperHex(start) \o HexRange(start + 1, inp)

\* variant: the range form starts one input later
RunText_fromFive(start, inp) ==
    IF inp - start < 5
    THEN HexRange(start, inp)
    ELSE UpperHex(start) \o "-" \o UpperHex(inp - 1)

\* what end_run writes for the run start..input (input excluded)
RunText(start, inp) ==
    IF inp - start < 4
    THEN HexRange(start, inp)
    ELSE UpperHex(start) \o "-" \o UpperHex(inp - 1)

\* the locals of one (from, maybe_to) pass; runs lists the (start, input)
\* pairs end_run found pending, in the order it wrote them
EdgePass(run_start, empty, out, runs) ==
    [run_start |-> run_start, empty |-> empty, out |-> out, runs |-> runs]

\* the closure end_run
EndRun(r, inp, from, maybe_to) ==
    IF r.run_start = None THEN r
    ELSE LET start == r.run_start[1]
             opened == IF r.empty
                       THEN r.out \o "    " \o ToString(from) \o " -> "
                                  \o ToString(maybe_to) \o " [label=\""
                       ELSE r.out
         IN  EdgePass(None, FALSE, opened \o RunText(start, inp),
                      Append(r.runs, <<start, inp>>))

\* for (input, &to) in edges.iter().enumerate(), then end_run(.., 16)
RECURSIVE EdgeLoop(_, _, _, _, _)
EdgeLoop(edges, inp, r, from, maybe_to) ==
    IF inp = NumInputs THEN EndRun(r, NumInputs, from, maybe_to)
    ELSE LET to == edges[inp + 1]
             r2 == IF to = maybe_to /\ r.run_start = None
                   THEN [r EXCEPT !.run_start = Some(inp)]
                   ELSE IF to # maybe_to THEN EndRun(r, inp, from, maybe_to)
                   ELSE r
         IN  EdgeLoop(edges, inp + 1, r2, from, maybe_to)

\* one turn of `for maybe_to`: the pass, then the closing of the line
EdgePassOf(t, from, maybe_to) ==
    EdgeLoop(t[from + 1].next, 0, EdgePass(None, TRUE, "", <<>>), from, maybe_to)

EdgeLine(t, from, maybe_to) ==
    LET r == EdgePassOf(t, from, maybe_to)
    IN  IF r.empty THEN r.out ELSE r.out \o "\"];\n"

\* the two nested loops over from and maybe_to, in that order
RECURSIVE EdgeLines(_, _, _)
EdgeLines(t, from, maybe_to) ==
    IF from = Len(t) THEN ""
    ELSE IF maybe_to = Len(t) THEN EdgeLines(t, from + 1, 0)
    ELSE EdgeLine(t, from, maybe_to) \o EdgeLines(t, from, maybe_to + 1)

\* the loop over the accepting rows
RECURSIVE PeripheryLines(_, _)
PeripheryLines(t, id) ==
    IF id = Len(t) THEN ""
    ELSE (IF t[id + 1].accepting
          THEN "    " \o ToString(id) \o "[peripheries=2];\n"
          ELSE "")
         \o PeripheryLines(t, id + 1)

dot(t) ==
    "digraph G {\n" \o EdgeLines(t, 0, 0) \o PeripheryLines(t, 0) \o "}\n"

\* the driver: println!("{}", table.dot())
Dot ==
    /\ pc = "minimized"
    /\ output' = dot(states)
    /\ pc' = "printed"
    /\ UNCHANGED <<instructions, cell_count, input>>
    /\ UNCHANGED engineVars
    /\ UNCHANGED buildVars
    /\ UNCHANGED minVars

\* the driver: build, then minimize, then dot
MainNext == BuildNext \/ MinimizeNext \/ Dot

MainSpec == Init /\ [][MainNext]_vars

\* build followed by minimize, as one sequential run that keeps taking
\* steps until minimize has returned
MinimizeFairNext == BuildNext \/ MinimizeNext

MinimizeFairSpec ==
    Init /\ [][MinimizeFairNext]_vars /\ WF_vars(MinimizeFairNext)

\* the driver followed by further calls of minimize
Next == MainNext \/ MinimizeAgain

Spec == Init /\ [][Next]_vars

\* ------------------------------------------------- dot on a table of its own
\* a row that goes to tg[1] up to the first input in breaks, to tg[2] from
\* there up to the second, and so on
SegmentRow(breaks, tg) ==
    [s \in 1..NumInputs |-> tg[1 + Cardinality({ b \in breaks : b <= s - 1 })]]

\* tables of r rows: row 0 is a SegmentRow, the other rows loop to
\* themselves, and the accepting flags alternate
DotTable(r, breaks, tg, acc) ==
    [i \in 1..r |->
        Row(acc = (i % 2 = 1),
            IF i = 1 THEN SegmentRow(breaks, tg) ELSE Repeat16(i - 1))]

InitDot ==
    /\ \E r \in 1..MaxDotRows :
       \E breaks \in SUBSET (1..(NumInputs - 1)) :
          /\ Cardinality(breaks) <= MaxBreaks
          /\ \E tg \in [1..(Cardinality(breaks) + 1) -> 0..(r - 1)] :
             \E acc \in BOOLEAN :
                states = DotTable(r, breaks, tg, acc)
    /\ pc = "minimized"
    /\ instructions = <<>>
    /\ cell_count = 1
    /\ state = InnerState(<<>>, 0, 0)
    /\ accepting = FALSE
    /\ seen_states = {}
    /\ ret = None
    /\ state_ids = <<>>
    /\ exploration_stack = <<>>
    /\ current = State(None, FALSE)
    /\ input = 0
    /\ old_states = <<>>
    /\ partition = <<>>
    /\ partition_reps = <<>>
    /\ queue = <<>>
    /\ queue_current = 0
    /\ preimage = {}
    /\ part = 0
    /\ part_end = 0
    /\ round = 0
    /\ output = ""

DotNext == Dot

DotSpec == InitDot /\ [][DotNext]_vars

\* --------------------------------------------- the engine on a tape of its own
\* the cell values the tapes are drawn from: both ends of the 4-bit range
TapeValues == {0, 1, 14, 15}

\* the bytes of a tape of n cells: cell 2k in the low nibble of byte k, cell
\* 2k + 1 in its high nibble, zero where there is no cell
PackTape(tape, n) ==
    [k \in 1..((n + 1) \div 2) |->
        tape[2 * (k - 1)]
        + 16 * (IF 2 * (k - 1) + 1 < n THEN tape[2 * (k - 1) + 1] ELSE 0)]

\* build is about to call the engine on a State that a Read returned: the
\* program is a Read followed by at most one instruction
InitTape ==
    /\ \E n \in 1..MaxTape :
          /\ cell_count = n
          /\ \E tape \in [0..(n - 1) -> TapeValues], head \in 0..(n - 1) :
                current = State(Some(InnerState(PackTape(tape, n), head, 1)),
                                FALSE)
    /\ instructions \in {<<Read>>} \cup { <<Read, ins>> : ins \in Instruction }
    /\ input \in TapeValues
    /\ pc = "explore"
    /\ state = InnerState(<<>>, 0, 0)
    /\ accepting = FALSE
    /\ seen_states = {}
    /\ ret = None
    /\ state_ids = <<>>
    /\ states = <<>>
    /\ exploration_stack = <<>>
    /\ old_states = <<>>
    /\ partition = <<>>
    /\ partition_reps = <<>>
    /\ queue = <<>>
    /\ queue_current = 0
    /\ preimage = {}
    /\ part = 0
    /\ part_end = 0
    /\ round = 0
    /\ output = ""

TapeNext == ExploreCall \/ EngineNext

TapeSpec == InitTape /\ [][TapeNext]_vars

\* ===================================================== properties of the DFA
\* the pairs (row of a, row of b) reached from (0, 0) on the same input string
RECURSIVE ReachPairs(_, _, _, _)
ReachPairs(a, b, frontier, seen) ==
    IF frontier = {} THEN seen
    ELSE LET succ == { <<a[pq[1] + 1].next[s], b[pq[2] + 1].next[s]>> :
                          pq \in frontier, s \in 1..NumInputs }
         IN  ReachPairs(a, b, succ \ seen, seen \cup succ)

\* a and b, both started in row 0, accept the same input strings
SameLanguage(a, b) ==
    \A pq \in ReachPairs(a, b, {<<0, 0>>}, {<<0, 0>>}) :
        a[pq[1] + 1].accepting = b[pq[2] + 1].accepting

\* the pairs of rows of t that no input string tells apart (Moore refinement)
RECURSIVE RefinePairs(_, _)
RefinePairs(t, eq) ==
    LET keep == { pq \in eq :
                    \A s \in 1..NumInputs :
                        <<t[pq[1] + 1].next[s], t[pq[2] + 1].next[s]>> \in eq }
    IN  IF keep = eq THEN eq ELSE RefinePairs(t, keep)

Equivalent(t) ==
    RefinePairs(t, { pq \in Rows(t) \X Rows(t) :
                        t[pq[1] + 1].accepting = t[pq[2] + 1].accepting })

\* C1: when minimize returns, the minimized table accepts, from row 0,
\* exactly the input strings that the table it was given accepts from row 0.
C1_LanguagePreserved ==
    pc = "minimized" => SameLanguage(old_states, states)

\* C2: when minimize returns, no two distinct rows of the table are
\* equivalent, and the final partition is the coarsest congruence of the
\* table it was given: two rows share a class exactly when no input string
\* tells them apart.
C2_CoarsestCongruence ==
    pc = "minimized" =>
        /\ \A p \in Rows(states), q \in Rows(states) :
              p # q => <<p, q>> \notin Equivalent(states)
        /\ \A i \in Rows(old_states), j \in Rows(old_states) :
              (partition[i + 1] = partition[j + 1])
                  <=> (<<i, j>> \in Equivalent(old_states))

\* C3: minimize applied to a minimized table returns that same table: same
\* rows in the same order with the same flags and next indices.
C3_Idempotent ==
    (pc = "minimized" /\ round >= 2) => states = old_states

\* ------------------------------------------------------------------ build
IsProgram(text, cells) ==
    instructions = Program_new(text) /\ cell_count = cells

HasRead == \E k \in 1..Len(instructions) : instructions[k] = Read

\* C4: build returns for every program and cell count: every engine call it
\* makes ends (at a Read, at the end of the instructions, off the front of
\* the instructions, or by cycle detection) and the stack runs empty.
C4_BuildTerminates == <>(pc = "built")

\* an engine call that ended by cycle detection, in a build that returned
\* nothing yet: the configuration at a non-skipping StartLoop was recorded
C4_Witness ==
    /\ pc \in {"seed_returned", "explore_returned"}
    /\ ret[1].inner = None
    /\ Fetch(state) = Some(StartLoop)
    /\ U4Vec_get(state.cells, state.head_position) # 0
    /\ state \in seen_states

\* C5: in the table build returns, every row is the row of exactly one
\* State, every next index is a row of the table, and next_i[s] is the row
\* of the State the engine returns from row i's configuration on input s.
C5_BuildTransitions ==
    pc = "built" =>
        /\ \A st \in DOMAIN state_ids : state_ids[st] \in Rows(states)
        /\ \A i \in Rows(states) : \E st \in DOMAIN state_ids : state_ids[st] = i
        /\ \A i \in Rows(states) : \A s \in 1..NumInputs :
              states[i + 1].next[s] \in Rows(states)
        /\ \A st \in DOMAIN state_ids :
              st.inner # None =>
                  \A s \in 0..(NumInputs - 1) :
                      LET r == run_with_next_input(st.inner[1], s, {}).ret[1]
                      IN  /\ r \in DOMAIN state_ids
                          /\ states[state_ids[st] + 1].next[s + 1] = state_ids[r]

\* a returned table in which some row goes to different rows on two inputs
C5_Witness ==
    /\ pc = "built"
    /\ \E i \in Rows(states) : \E s \in 1..NumInputs, t \in 1..NumInputs :
          /\ states[i + 1].next[s] # states[i + 1].next[t]
          /\ states[i + 1].next[s] # 0
          /\ states[i + 1].next[t] # 0

\* C6: in the table build returns, the row of every State with inner = None
\* loops to itself on all 16 inputs and carries that State's accepting flag.
C6_SinkRows ==
    pc = "built" =>
        \A st \in DOMAIN state_ids :
            st.inner = None =>
                /\ state_ids[st] \in Rows(states)
                /\ states[state_ids[st] + 1].accepting = st.accepting
                /\ \A s \in 1..NumInputs :
                      states[state_ids[st] + 1].next[s] = state_ids[st]

\* a returned table with an accepting sink that is not row 0
C6_Witness ==
    /\ pc = "built"
    /\ \E st \in DOMAIN state_ids :
          st.inner = None /\ st.accepting /\ state_ids[st] # 0

\* the DFA of the non-empty strings over 0..15
NonEmptyStrings ==
    << Row(FALSE, Repeat16(1)), Row(TRUE, Repeat16(1)) >>

\* the DFA of the non-empty strings over 1..15: an input 0 leads to the
\* rejecting sink, row 2
NonEmptyNonZeroStrings ==
    << Row(FALSE, [s \in 1..NumInputs |-> IF s = 1 THEN 2 ELSE 1]),
       Row(TRUE, [s \in 1..NumInputs |-> IF s = 1 THEN 2 ELSE 1]),
       Row(FALSE, Repeat16(2)) >>

MinimizedOnce == pc = "minimized" /\ round = 1

\* C7 as stated: for ",[.,]" with one cell, build and minimize give 2 rows
\* that accept exactly the non-empty strings over 0..15.
C7_S1_AsStated ==
    (IsProgram(TextS1, 1) /\ MinimizedOnce) =>
        /\ Len(states) = 2
        /\ SameLanguage(states, NonEmptyStrings)

\* C7 as amended: for ",[.,]" with one cell, build and minimize give 3 rows
\* that accept exactly the non-empty strings over 1..15.
C7_S1_Amended ==
    (IsProgram(TextS1, 1) /\ MinimizedOnce) =>
        /\ Len(states) = 3
        /\ SameLanguage(states, NonEmptyNonZeroStrings)

C7_Witness == IsProgram(TextS1, 1) /\ MinimizedOnce /\ Len(old_states) = 17

\* C8 as stated: for "+[,.]" with one cell, build and minimize give 2 rows
\* that accept the language of scenario S1's minimized DFA (the non-empty
\* strings over 1..15, by C7).
C8_S2_AsStated ==
    (IsProgram(TextS2, 1) /\ MinimizedOnce) =>
        /\ Len(states) = 2
        /\ SameLanguage(states, NonEmptyNonZeroStrings)

\* C8 as amended: for "+[,.]" with one cell, build and minimize give 2 rows
\* that accept exactly the non-empty strings over 0..15.
C8_S2_Amended ==
    (IsProgram(TextS2, 1) /\ MinimizedOnce) =>
        /\ Len(states) = 2
        /\ SameLanguage(states, NonEmptyStrings)

C8_Witness ==
    /\ IsProgram(TextS2, 1) /\ MinimizedOnce
    /\ \E i \in Rows(old_states) :
          old_states[i + 1].accepting /\ old_states[i + 1].next = Repeat16(i)

\* C9: for ",[-[-]]]" with one cell build returns and, after minimize, the
\* table has at most 3 rows and every next index is a row of the table.
C9_S3_SmallAndTotal ==
    (IsProgram(TextS3, 1) /\ pc = "minimized") =>
        /\ Len(states) <= 3
        /\ \A i \in Rows(states) :
              /\ DOMAIN states[i + 1].next = 1..NumInputs
              /\ \A s \in 1..NumInputs : states[i + 1].next[s] \in Rows(states)

\* minimize has returned for S3, from a built table with the start row and
\* the sink that the stray EndLoop leads to
C9_Witness ==
    /\ IsProgram(TextS3, 1) /\ pc = "minimized" /\ round = 1
    /\ Len(old_states) = 2 /\ old_states[1].next = Repeat16(1)

\* C10: for a program without Read the seeding call returns inner = None and
\* the built table is one self-looping row; for the empty program that row
\* is not accepting.
C10_NoReadIsSink ==
    ~HasRead =>
        /\ pc = "seed_returned" => ret[1].inner = None
        /\ pc = "built" =>
              /\ Len(states) = 1
              /\ states[1].next = Repeat16(0)
              /\ \E acc \in BOOLEAN :
                    /\ DOMAIN state_ids = {State(None, acc)}
                    /\ states[1].accepting = acc
              /\ instructions = <<>> => ~states[1].accepting

\* the table of a non-empty program without Read that ran an Accept
C10_Witness ==
    /\ pc = "built" /\ ~HasRead /\ instructions # <<>>
    /\ Len(states) = 1 /\ states[1].accepting

\* -------------------------------------------------------------------- dot
\* the inputs on which row `from` goes to row `to`
EdgeInputs(t, from, to) ==
    { s \in 0..(NumInputs - 1) : t[from + 1].next[s + 1] = to }

\* the maximal contiguous runs a..b (both included) of a set of inputs
MaximalRuns(S) ==
    { ab \in (0..(NumInputs - 1)) \X (0..(NumInputs - 1)) :
        /\ ab[1] <= ab[2]
        /\ \A k \in ab[1]..ab[2] : k \in S
        /\ (ab[1] - 1) \notin S
        /\ (ab[2] + 1) \notin S }

\* a run of 1..3 inputs is its digits, a longer one is START-END
RunLabel(a, b) ==
    CASE b = a -> HexDigits[a + 1]
      [] b = a + 1 -> HexDigits[a + 1] \o HexDigits[b + 1]
      [] b = a + 2 -> HexDigits[a + 1] \o HexDigits[a + 2] \o HexDigits[b + 1]
      [] OTHER -> HexDigits[a + 1] \o "-" \o HexDigits[b + 1]

\* the labels of a set of runs, lowest run first, without separators
RECURSIVE RunLabels(_)
RunLabels(runs) ==
    IF runs = {} THEN ""
    ELSE LET first == CHOOSE ab \in runs : \A cd \in runs : ab[1] <= cd[1]
         IN  RunLabel(first[1], first[2]) \o RunLabels(runs \ {first})

ExpectedEdgeLine(t, from, to) ==
    IF EdgeInputs(t, from, to) = {} THEN ""
    ELSE "    " \o ToString(from) \o " -> " \o ToString(to) \o " [label=\""
         \o RunLabels(MaximalRuns(EdgeInputs(t, from, to))) \o "\"];\n"

\* the edge lines of all ordered pairs, by from and then by to
RECURSIVE ExpectedEdgeLines(_, _)
ExpectedEdgeLines(t, k) ==
    IF k = Len(t) * Len(t) THEN ""
    ELSE ExpectedEdgeLine(t, k \div Len(t), k % Len(t))
         \o ExpectedEdgeLines(t, k + 1)

\* C11: dot writes, for each ordered pair (from, to), one edge line when
\* some input takes from to to and none otherwise; its label is the maximal
\* contiguous runs of those inputs in ascending order, 1..3 inputs as hex
\* digits and 4 or more as START-END; the runs written are pairwise
\* disjoint and cover exactly the inputs of the edge.
C11_DotEdgeLabels ==
    pc = "printed" =>
        /\ output = "digraph G {\n" \o ExpectedEdgeLines(states, 0)
                        \o PeripheryLines(states, 0) \o "}\n"
        /\ \A from \in Rows(states), to \in Rows(states) :
              LET runs == EdgePassOf(states, from, to).runs
              IN  /\ \A k \in 1..Len(runs) : runs[k][1] < runs[k][2]
                  /\ \A k \in 1..(Len(runs) - 1) : runs[k][2] < runs[k + 1][1]
                  /\ UNION { runs[k][1]..(runs[k][2] - 1) : k \in 1..Len(runs) }
                        = EdgeInputs(states, from, to)

\* an edge written with two runs or more, one as a range and one as digits
C11_Witness ==
    /\ pc = "printed"
    /\ \E from \in Rows(states), to \in Rows(states) :
          LET runs == EdgePassOf(states, from, to).runs
          IN  /\ Len(runs) >= 2
              /\ \E k \in 1..Len(runs) : runs[k][2] - runs[k][1] >= 4
              /\ \E k \in 1..Len(runs) : runs[k][2] - runs[k][1] \in {2, 3}

\* ---------------------------------------------------------------- minimize
\* the class id a set of rows carries after the step
IdAfter(S) == partition'[Min(S) + 1]

\* C12: at every split of a class P into intersection and remainder, if
\* P's id is on the worklist at the time of the split then the newly
\* created class id is on the worklist after it (both halves pending);
\* otherwise the id of the smaller of the two halves is added.
C12_HopcroftRule ==
    [][PartSplit =>
        LET intersection == Intersection(partition, part, preimage)
            remainder == Remainder(partition, part, preimage)
            fresh == Len(partition_reps)
        IN  IF Contains(queue, part)
            THEN Contains(queue', fresh)
            ELSE \/ /\ Cardinality(intersection) <= Cardinality(remainder)
                    /\ queue' = Append(queue, IdAfter(intersection))
                 \/ /\ Cardinality(remainder) <= Cardinality(intersection)
                    /\ queue' = Append(queue, IdAfter(remainder))]_vars

\* minimize has initialised its partition and has not returned yet
InMinimize == pc \in {"min_loop", "min_input", "min_part"}

\* the rows whose partition value is c
ClassMembers(c) == { i \in 0..(Len(partition) - 1) : partition[i + 1] = c }

\* C13: throughout minimize, after initialization and after every split,
\* every partition value is a valid class id, every class is non-empty, and
\* partition_reps[c] is the lowest-indexed row whose partition value is c.
C13_RepsAreClassMinima ==
    InMinimize =>
        /\ Len(partition) = Len(states)
        /\ \A i \in 1..Len(partition) :
              partition[i] \in 0..(Len(partition_reps) - 1)
        /\ \A c \in 0..(Len(partition_reps) - 1) :
              /\ ClassMembers(c) # {}
              /\ partition_reps[c + 1] = Min(ClassMembers(c))

\* after splits in which the class ids did not follow the order of the
\* class minima
C13_Witness ==
    /\ pc = "min_part"
    /\ Len(partition_reps) >= 4
    /\ \E c \in 1..(Len(partition_reps) - 1) :
          partition_reps[c] > partition_reps[c + 1]

\* ------------------------------------------------------------------ engine
\* one instruction of the program left to itself: no record of earlier
\* configurations is consulted
FreeStep(e) == EngineStep([e EXCEPT !.seen_states = {}])

\* what the uninterrupted execution from e does: it returns (at a Read or by
\* halting), it executes an Accept the call had not executed, or it comes
\* back to a configuration it was in and so runs forever
RECURSIVE FreeRun(_, _, _)
FreeRun(e, acc0, visited) ==
    IF e.ret # None THEN "returns"
    ELSE IF e.accepting # acc0 THEN "accepts"
    ELSE IF e.state \in visited THEN "forever"
    ELSE FreeRun(FreeStep(e), acc0, visited \cup {e.state})

\* the call is at a StartLoop on a non-zero cell and its next step returns
CycleDetected ==
    /\ Running
    /\ Fetch(state) = Some(StartLoop)
    /\ U4Vec_get(state.cells, state.head_position) # 0
    /\ EngineStep(Eng).ret # None

\* C14: whenever a call returns inner = None because its configuration was
\* already recorded at a non-skipping StartLoop during that call, the
\* uninterrupted execution from that configuration never reaches a Read,
\* never halts and executes no Accept the call had not already executed.
C14_CycleDetectionSound ==
    CycleDetected =>
        /\ EngineStep(Eng).ret = Some(State(None, accepting))
        /\ FreeRun(Engine(state, accepting, {}, None), accepting, {}) = "forever"

\* a cycle through an Accept, detected on an exploring call
C14_Witness ==
    /\ CycleDetected
    /\ pc = "explore_engine"
    /\ accepting

\* how many of the instructions at positions a..b are `ins`
CountOf(ins, a, b) == Cardinality({ k \in a..b : instructions[k + 1] = ins })

\* the StartLoop at position i has an EndLoop closing it
HasMatchingEnd(i) ==
    \E j \in (i + 1)..(Len(instructions) - 1) :
        /\ instructions[j + 1] = EndLoop
        /\ CountOf(StartLoop, i, j) = CountOf(EndLoop, i, j)

\* the EndLoop at position i has a StartLoop opening it
HasMatchingStart(i) ==
    \E j \in 0..(i - 1) :
        /\ instructions[j + 1] = StartLoop
        /\ CountOf(StartLoop, j, i) = CountOf(EndLoop, j, i)

UnmatchedSkip ==
    /\ Running
    /\ Fetch(state) = Some(StartLoop)
    /\ U4Vec_get(state.cells, state.head_position) = 0
    /\ ~HasMatchingEnd(state.instruction_position)

UnmatchedRewind ==
    /\ Running
    /\ Fetch(state) = Some(EndLoop)
    /\ ~HasMatchingStart(state.instruction_position)

\* C15: a StartLoop on a zero cell without a matching EndLoop and an
\* EndLoop without a matching StartLoop both make the call return
\* State{inner: None} with the accepting flag accumulated so far, and the
\* instruction position is never below 0 nor above the instruction count.
C15_UnbalancedBrackets ==
    /\ state.instruction_position \in 0..Len(instructions)
    /\ Running => EngineStep(Eng).state.instruction_position
                     \in 0..Len(instructions)
    /\ UnmatchedSkip => EngineStep(Eng).ret = Some(State(None, accepting))
    /\ UnmatchedRewind => EngineStep(Eng).ret = Some(State(None, accepting))

\* an exploring call at an unmatched EndLoop that is not the first
\* instruction: the rewind walks back to position 0
C15_Witness ==
    /\ UnmatchedRewind
    /\ pc = "explore_engine"
    /\ state.instruction_position > 0

\* whether the call that starts in e executes an Accept before it returns
RECURSIVE ExecutedAccept(_)
ExecutedAccept(e) ==
    IF e.ret # None THEN FALSE
    ELSE \/ Fetch(e.state) = Some(Accept)
         \/ ExecutedAccept(EngineStep(e))

\* C16: the accepting flag of the State a call returns is true iff the call
\* executed an Accept: the flag is false when the call starts, whatever the
\* flag of the State it starts from, and executing Accept changes neither
\* the cells nor the head nor the control flow (the next instruction is the
\* one after it, and the call goes on).
C16_AcceptingFlag ==
    /\ pc = "seed_returned" =>
          ret[1].accepting
             = ExecutedAccept(Engine(InnerState(ZeroCells(cell_count), 0, 0),
                                     FALSE, {}, None))
    /\ pc = "explore_returned" =>
          ret[1].accepting
             = ExecutedAccept(Engine(
                  [current.inner[1] EXCEPT !.cells =
                      U4Vec_set(@, current.inner[1].head_position, input)],
                  FALSE, {}, None))
    /\ StepOf(Accept) =>
          LET e == EngineStep(Eng)
          IN  /\ e.state.cells = state.cells
              /\ e.state.head_position = state.head_position
              /\ e.state.instruction_position = state.instruction_position + 1
              /\ e.ret = None

\* a call started from an accepting State that returned a rejecting one
C16_Witness ==
    /\ pc = "explore_returned"
    /\ current.accepting
    /\ ~ret[1].accepting

\* ------------------------------------------------------------------- cells
\* the values of the n cells of a U4Vec
TapeOf(cells, n) == [i \in 0..(n - 1) |-> U4Vec_get(cells, i)]

\* one byte per pair of cells, and nothing in the nibble past the last cell
WellFormedCells(cells, n) ==
    /\ Len(cells) = (n + 1) \div 2
    /\ \A k \in 1..Len(cells) : cells[k] \in 0..(ByteMod - 1)
    /\ n % 2 = 1 => cells[Len(cells)] \div 16 = 0

\* C17: cell arithmetic is 4-bit modular and local: Increment takes 15 to 0
\* and Decrement takes 0 to 15, every cell value is in 0..15, and a write to
\* the cell under the head (the input write of a call, Increment,
\* Decrement) changes no other cell, neither the one sharing its byte nor,
\* for an odd cell count, the unused high nibble of the last byte, which
\* stays zero.
C17_CellArithmetic ==
    /\ pc = "explore" =>
          LET st == current.inner[1]
              e == EngineEntry(st, input, seen_states)
          IN  /\ WellFormedCells(e.state.cells, cell_count)
              /\ TapeOf(e.state.cells, cell_count)
                    = [TapeOf(st.cells, cell_count)
                          EXCEPT ![st.head_position] = input]
    /\ Running =>
          /\ WellFormedCells(state.cells, cell_count)
          /\ \A i \in 0..(cell_count - 1) : U4Vec_get(state.cells, i) \in 0..15
    /\ StepOf(Increment) =>
          LET e == EngineStep(Eng)
          IN  /\ WellFormedCells(e.state.cells, cell_count)
              /\ TapeOf(e.state.cells, cell_count)
                    = [TapeOf(state.cells, cell_count)
                          EXCEPT ![state.head_position] = (@ + 1) % 16]
    /\ StepOf(Decrement) =>
          LET e == EngineStep(Eng)
          IN  /\ WellFormedCells(e.state.cells, cell_count)
              /\ TapeOf(e.state.cells, cell_count)
                    = [TapeOf(state.cells, cell_count)
                          EXCEPT ![state.head_position] = (@ + 15) % 16]

\* an Increment about to wrap the cell in a high nibble while the cell in
\* the low nibble of the same byte is not zero, on a tape of odd length
C17_Witness ==
    /\ StepOf(Increment)
    /\ cell_count = 3
    /\ state.head_position = 1
    /\ U4Vec_get(state.cells, 1) = 15
    /\ U4Vec_get(state.cells, 0) # 0

\* the number of classes of a partition vector
NumClasses(p) == Cardinality({ p[i] : i \in 1..Len(p) })

\* C18: minimize terminates: every split increases the number of classes
\* by one, the number of classes never exceeds the number of rows, a
\* minimize that was entered returns with the worklist empty, and the table
\* it returns has at most as many rows as the table it was given.
C18_MinimizeTerminates ==
    /\ [][PartSplit =>
            /\ NumClasses(partition') = NumClasses(partition) + 1
            /\ Len(partition_reps') = Len(partition_reps) + 1]_vars
    /\ [](InMinimize =>
            /\ NumClasses(partition) = Len(partition_reps)
            /\ Len(partition_reps) <= Len(states))
    /\ [](pc = "minimized" =>
            /\ queue = <<>>
            /\ Len(states) = Len(partition_reps)
            /\ Len(states) <= Len(old_states))
    /\ (pc = "built") ~> (pc = "minimized")

\* minimize returned fewer rows than it was given, after splits
C18_Witness ==
    /\ pc = "minimized"
    /\ Len(partition_reps) >= 3
    /\ Len(states) < Len(old_states)

\* C19: the cycle-detection set is scoped to one call: whenever build
\* enters the engine, for the seeding call and for each of the 16 calls per
\* explored State, the set is empty, whatever earlier calls recorded.
C19_SeenStatesScoped ==
    [][(~Running /\ pc' \in {"seed_engine", "explore_engine"})
          => seen_states' = {}]_vars

\* a call that recorded configurations has returned, and the next call for
\* the same State is still to come
C19_Witness ==
    /\ pc = "explore_returned"
    /\ seen_states # {}
    /\ ret[1].inner # None
    /\ input + 1 < NumInputs

\* C20: the start state stays at index 0 through minimize: throughout
\* minimize row 0 is in class 0 and partition_reps[0] = 0, so row 0 of the
\* minimized table is the row of the start state's class (its edges mapped
\* to classes), carries the start state's accepting flag, and every next
\* index of the minimized table is a row of the minimized table.
C20_StartStaysAtZero ==
    /\ InMinimize =>
          /\ partition[1] = 0
          /\ partition_reps[1] = 0
    /\ pc = "minimized" =>
          /\ \A i \in 1..Len(states) : \A s \in 1..NumInputs :
                states[i].next[s] \in Rows(states)
          /\ partition[1] = 0
          /\ states[1].accepting = old_states[1].accepting
          /\ \A s \in 1..NumInputs :
                states[1].next[s] = partition[old_states[1].next[s] + 1]

\* minimize merged rows of a table whose start state is accepting and
\* returned two rows or more
C20_Witness ==
    /\ pc = "minimized"
    /\ Len(states) >= 2
    /\ Len(states) < Len(old_states)
    /\ old_states[1].accepting

====
